---- MODULE Spec2Model ----
(***************************************************************************)
(* A model of the ZaraLive transcript logger (transcript-logger.js): the   *)
(* TranscriptLogger client that builds Loki log entries from transcripts,  *)
(* pushes them over HTTP, keeps in-process health counters, and queries    *)
(* Loki for transcripts and windowed statistics.                           *)
(*                                                                         *)
(* JavaScript runs the client's callbacks one at a time, so every handler  *)
(* (a call up to its first await, a response callback, a 'data', 'end' or  *)
(* 'error' listener, the continuation after an await) is one atomic        *)
(* action.  The backend and the transport are the environment.             *)
(***************************************************************************)
EXTENDS Integers, Sequences, FiniteSets, TLC

VARIABLES
    config,     \* the fields the constructor sets: lokiEndpoint, serviceName, enabled
    metrics,    \* this.metrics
    now,        \* the latest reading of the wall clock (Date.now()), in milliseconds
    calls,      \* the logTranscript calls made so far, each with its push request
    batch,      \* the logTranscripts call
    searches,   \* the searchTranscripts calls made so far, each with its query request
    stats,      \* the getTranscriptStats call
    heap,       \* the objects of a process with several clients, by reference
    instances,  \* those clients: the reference each holds in this.metrics, and
                \* the calls that have settled on each
    returned    \* the objects getMetrics has returned to callers of those clients

vars == <<config, metrics, now, calls, batch, searches, stats, heap, instances,
          returned>>

\* the objects of the process with several clients
objects == <<heap, instances, returned>>

----------------------------------------------------------------------------
(* Bounds of the model *)

\* the number of direct logTranscript calls, all of which may be in flight at once
MaxCalls == 2
\* the largest batch handed to logTranscripts
MaxBatch == 3
\* how many milliseconds the clock advances in a run
MaxTicks == 1
\* the clock at construction: later than 7 days, so that every window starts after the epoch
BaseNow == 700000000

----------------------------------------------------------------------------
(* JavaScript values *)

\* undefined / an absent property is the empty sequence, a present value v is <<v>>
None == <<>>
Some(v) == <<v>>
IsSome(o) == o # None
Get(o) == o[1]

\* this.metrics.lastTranscriptTimestamp before the first success
Null == -1

RECURSIVE Digits(_)
\* Number.prototype.toString for a non-negative integer: its decimal digits
Digits(n) == IF n < 10 THEN <<n>> ELSE Digits(n \div 10) \o <<n % 10>>

RECURSIVE MulDigits(_, _, _)
\* the decimal digits of d * m + carry, for digits d (exact integer product,
\* computed digit by digit from the least significant one)
MulDigits(d, m, carry) ==
    IF d = <<>>
    THEN IF carry = 0 THEN <<>> ELSE Digits(carry)
    ELSE LET p == d[Len(d)] * m + carry
         IN  MulDigits(SubSeq(d, 1, Len(d) - 1), m, p \div 10) \o <<p % 10>>

\* (n * m).toString() for non-negative integers n and m
TimesToString(n, m) == IF n = 0 \/ m = 0 THEN <<0>> ELSE MulDigits(Digits(n), m, 0)

RECURSIVE Join(_, _)
\* Array.prototype.join: the elements with the separator between them
Join(s, sep) ==
    IF s = <<>> THEN <<>>
    ELSE IF Len(s) = 1 THEN <<s[1]>>
    ELSE <<s[1], sep>> \o Join(Tail(s), sep)

RECURSIVE SumSeq(_)
SumSeq(s) == IF s = <<>> THEN 0 ELSE s[1] + SumSeq(Tail(s))

----------------------------------------------------------------------------
(* The constructor *)

DefaultLokiEndpoint == "http://localhost:3100"
DefaultServiceName == "zaralive-transcripts"

\* new TranscriptLogger(options): the configuration fields
Constructor(options) ==
    [lokiEndpoint |-> IF IsSome(options.lokiEndpoint) THEN Get(options.lokiEndpoint)
                      ELSE DefaultLokiEndpoint,
     serviceName  |-> IF IsSome(options.serviceName) THEN Get(options.serviceName)
                      ELSE DefaultServiceName,
     enabled      |-> options.enabled # Some(FALSE)]

\* this.metrics as the constructor leaves it
InitialMetrics ==
    [transcriptEntriesTotal  |-> 0,
     transcriptErrorsTotal   |-> 0,
     lastTranscriptTimestamp |-> Null]

\* the options the model constructs clients with
OptionsSet ==
    { [lokiEndpoint |-> None, serviceName |-> None, enabled |-> e] :
        e \in {None, Some(TRUE), Some(FALSE)} }

----------------------------------------------------------------------------
(* Transcripts *)

\* a transcript as the example at the end of the file builds it
Transcript(session, turn, ts, type, content, metadata, context) ==
    [sessionId   |-> session,
     turnNumber  |-> turn,
     timestamp   |-> ts,
     messageType |-> type,
     content     |-> content,
     metadata    |-> metadata,
     context     |-> context]

Metadata(flags, vocab, grammar, duration, id) ==
    [safetyFlags          |-> flags,
     vocabularyComplexity |-> vocab,
     grammarComplexity    |-> grammar,
     turnDuration         |-> duration,
     messageId            |-> id]

Context(flow, intent) == [conversationFlow |-> flow, userIntent |-> intent]

\* a number with a whole part and a fraction of so many millionths, and a
\* whole number
Number(whole, micros) == [whole |-> whole, micros |-> micros]
Whole(n) == Number(n, 0)

\* the transcripts the model logs: a user turn with metadata and context, a
\* zara turn without either, and a turn whose turnNumber is missing
UserTranscript ==
    Transcript("s1", Some(1), Some(Whole(1705312200)), "user", Some(<<"h", "i">>),
               Some(Metadata(Some(<<"pii", "profanity">>), Some([level |-> Some("simple")]),
                             None, Some(1500), Some("msg_1"))),
               Some(Context(Some("start"), Some("greeting"))))

ZaraTranscript ==
    Transcript("s1", Some(2), Some(Whole(1000)), "zara", Some(<<"o", "k", "!">>), None, None)

BrokenTranscript ==
    Transcript("s2", None, Some(Whole(3)), "user", None, None, None)

Transcripts == {UserTranscript, ZaraTranscript, BrokenTranscript}

----------------------------------------------------------------------------
(* prepareLogEntry *)

\* new Date(value) for a non-negative number: the time value is the number
\* with its fraction cut off
NewDate(value) == value.whole

\* date.toISOString(): the instant rendered, to the millisecond; it throws a
\* RangeError for an invalid date, which new Date(undefined) is
ToISOString(ms) == [iso |-> ms]

\* JSON.stringify of the payload object
JSONStringify(obj) == [json |-> obj]

\* a ?? b for an optional string a: only undefined gives b
OrElseNullish(a, b) == IF IsSome(a) THEN Get(a) ELSE b

\* a || b for an optional string a: the empty string is falsy as undefined is
OrElse(a, b) == IF IsSome(a) /\ Get(a) # "" THEN Get(a) ELSE b

\* the multiplier applied to transcript.timestamp
NanosFactor == 1000000

\* a timestamp string in microseconds
TimestampStringMicros(ts) == MulDigits(Digits(ts.whole), 1000, ts.micros \div 1000)

\* (transcript.timestamp * 1000000).toString(), the product being a whole number
TimestampString(ts) == MulDigits(Digits(ts.whole), NanosFactor, ts.micros)

\* whether prepareLogEntry throws: toISOString of an invalid date, or
\* toString of an undefined turnNumber
PrepareThrows(transcript) ==
    ~IsSome(transcript.timestamp) \/ ~IsSome(transcript.turnNumber)

\* the name of the exception prepareLogEntry throws
PrepareException(transcript) ==
    IF ~IsSome(transcript.timestamp) THEN "RangeError" ELSE "TypeError"

\* prepareLogEntry(transcript), for a transcript it does not throw on
PrepareLogEntry(cfg, transcript) ==
    LET md == transcript.metadata
        ctx == transcript.context
        safetyFlags ==
            IF IsSome(md) /\ IsSome(Get(md).safetyFlags) THEN Get(Get(md).safetyFlags)
            ELSE <<>>
        safetyFlagsStr ==
            IF Len(safetyFlags) > 0 THEN Join(safetyFlags, ",") ELSE <<"none">>
        Level(c) == IF IsSome(c) THEN Get(c).level ELSE None
        vocabComplexity ==
            OrElse(IF IsSome(md) THEN Level(Get(md).vocabularyComplexity) ELSE None,
                   "unknown")
        grammarComplexity ==
            OrElse(IF IsSome(md) THEN Level(Get(md).grammarComplexity) ELSE None,
                   "unknown")
        contentLength ==
            IF IsSome(transcript.content) THEN Len(Get(transcript.content)) ELSE 0
    IN  [streams |-> <<
          [stream |->
              [job                   |-> cfg.serviceName,
               session_id            |-> transcript.sessionId,
               message_type          |-> transcript.messageType,
               turn_number           |-> Digits(Get(transcript.turnNumber)),
               content_length        |-> Digits(contentLength),
               safety_flags          |-> safetyFlagsStr,
               vocabulary_complexity |-> vocabComplexity,
               grammar_complexity    |-> grammarComplexity,
               conversation_flow     |->
                   OrElse(IF IsSome(ctx) THEN Get(ctx).conversationFlow ELSE None,
                          "unknown"),
               user_intent           |->
                   OrElse(IF IsSome(ctx) THEN Get(ctx).userIntent ELSE None,
                          "unknown")],
           values |-> <<
              <<TimestampString(Get(transcript.timestamp)),
                JSONStringify(
                  [timestamp            |-> ToISOString(NewDate(Get(transcript.timestamp))),
                   level                |-> "info",
                   message              |-> "Transcript recorded",
                   sessionId            |-> transcript.sessionId,
                   turnNumber           |-> Get(transcript.turnNumber),
                   messageType          |-> transcript.messageType,
                   content              |-> transcript.content,
                   metadata             |-> transcript.metadata,
                   context              |-> transcript.context,
                   contentLength        |-> contentLength,
                   safetyFlags          |-> safetyFlags,
                   vocabularyComplexity |-> vocabComplexity,
                   grammarComplexity    |-> grammarComplexity,
                   turnDuration         |->
                       IF IsSome(md) /\ IsSome(Get(md).turnDuration)
                       THEN Get(Get(md).turnDuration) ELSE 0,
                   messageId            |->
                       OrElse(IF IsSome(md) THEN Get(md).messageId ELSE None,
                              "unknown")])>> >>] >>]

----------------------------------------------------------------------------
(* The health counters *)

\* updateMetrics with the error count assigned instead of incremented
UpdateMetricsAssign(m, status, t) ==
    IF status = "success"
    THEN [m EXCEPT !.transcriptEntriesTotal = @ + 1,
                   !.lastTranscriptTimestamp = t]
    ELSE [m EXCEPT !.transcriptErrorsTotal = 1]

\* updateMetrics that counts a success without recording its time
UpdateMetricsNoStamp(m, status, t) ==
    IF status = "success"
    THEN [m EXCEPT !.transcriptEntriesTotal = @ + 1]
    ELSE [m EXCEPT !.transcriptErrorsTotal = @ + 1]

\* updateMetrics that records the time of a failure too
UpdateMetricsStampOnError(m, status, t) ==
    IF status = "success"
    THEN [m EXCEPT !.transcriptEntriesTotal = @ + 1,
                   !.lastTranscriptTimestamp = t]
    ELSE [m EXCEPT !.transcriptErrorsTotal = @ + 1,
                   !.lastTranscriptTimestamp = t]

\* updateMetrics(transcript, status) at clock reading t
UpdateMetrics(m, status, t) ==
    IF status = "success"
    THEN [m EXCEPT !.transcriptEntriesTotal = @ + 1,
                   !.lastTranscriptTimestamp = t]
    ELSE [m EXCEPT !.transcriptErrorsTotal = @ + 1]

\* getMetrics()
GetMetrics(m) ==
    [transcript_entries_total  |-> m.transcriptEntriesTotal,
     transcript_errors_total   |-> m.transcriptErrorsTotal,
     last_transcript_timestamp |-> m.lastTranscriptTimestamp]

----------------------------------------------------------------------------
(* The backend and the transport (the environment) *)

\* the status codes the backend answers with
StatusCodes == {200, 300, 500}

\* a piece of text made of whole characters, as it travels in a chunk
Text(s) == [tok |-> s]

\* the two bytes of the UTF-8 encoding of one character outside ASCII, that
\* character, and the replacement character a decoder writes for bytes that
\* are no character
LeadByte == [tok |-> "0xC3"]
ContByte == [tok |-> "0xA9"]
TwoByteChar == [tok |-> "U+00E9"]
ReplacementChar == [tok |-> "U+FFFD"]

RECURSIVE BufferToString(_)
\* Buffer.prototype.toString(): the UTF-8 decoding of the bytes of one chunk
\* on their own; a byte of a character whose other byte is not next to it in
\* the chunk decodes to the replacement character
BufferToString(chunk) ==
    IF chunk = <<>> THEN <<>>
    ELSE IF Len(chunk) >= 2 /\ chunk[1] = LeadByte /\ chunk[2] = ContByte
    THEN <<TwoByteChar>> \o BufferToString(SubSeq(chunk, 3, Len(chunk)))
    ELSE IF chunk[1] \in {LeadByte, ContByte}
    THEN <<ReplacementChar>> \o BufferToString(Tail(chunk))
    ELSE <<chunk[1]>> \o BufferToString(Tail(chunk))

\* the response bodies of the push endpoint, as the chunks they arrive in: an
\* empty body, and a text in two chunks with one two-byte character whole in
\* the first chunk and another split between the two
PushBodies ==
    { <<>>,
      << <<Text("entry too far"), LeadByte, ContByte, LeadByte>>,
         <<ContByte, Text(" behind")>> >> }

\* the transport errors http reports on the request
TransportErrors == {"ECONNREFUSED"}

\* the host and port a request is sent to
Target(host, port) == [hostname |-> host, port |-> port]

----------------------------------------------------------------------------
(* sendToLoki *)

\* the options of the push request
PushOptions(cfg, postData) ==
    [target  |-> Target("localhost", 3100),
     path    |-> "/loki/api/v1/push",
     method  |-> "POST",
     body    |-> postData]

\* the status test with its upper bound off by one
IsSuccessStatusInclusive(statusCode) == statusCode >= 200 /\ statusCode <= 300

\* res.statusCode >= 200 && res.statusCode < 300
IsSuccessStatus(statusCode) == statusCode >= 200 /\ statusCode < 300

\* how the 'end' listener of the push response settles sendToLoki's promise
PushEndResult(statusCode, data) ==
    IF IsSuccessStatus(statusCode)
    THEN [kind |-> "resolved"]
    ELSE [kind |-> "rejected",
          error |-> [message |-> "Loki responded with status",
                     statusCode |-> Some(statusCode), detail |-> data]]

\* how the 'error' listener of the push request settles sendToLoki's promise
PushErrorResult(err) ==
    [kind |-> "rejected",
     error |-> [message |-> "Failed to send to Loki", statusCode |-> None,
                detail |-> <<err>>]]

\* a promise that has not settled
Pending == [kind |-> "pending"]

\* a request that was never made
NoRequest ==
    [state      |-> "none",
     options    |-> None,
     statusCode |-> None,
     data       |-> <<>>,
     body       |-> <<>>,
     rest       |-> <<>>]

\* http.request(options, callback) followed by write and end: the request is
\* on the wire and no response has arrived
NewRequest(options) ==
    [state      |-> "sent",
     options    |-> options,
     statusCode |-> None,
     data       |-> <<>>,
     body       |-> <<>>,
     rest       |-> <<>>]

\* the response callback: the status line and headers have arrived (body is
\* the chunks the backend sends, rest those that have not arrived), data = ''
OnResponse(req, statusCode, body) ==
    [req EXCEPT !.state = "response", !.statusCode = Some(statusCode),
                !.data = <<>>, !.body = body, !.rest = body]

\* res.on('data'): data += chunk, which converts the chunk (a Buffer) to a string
OnData(req) ==
    [req EXCEPT !.data = @ \o BufferToString(Head(req.rest)), !.rest = Tail(@)]

\* the request after its 'end' or 'error' event
Closed(req) == [req EXCEPT !.state = "closed"]

\* a request the backend will never answer, or never finish answering: no
\* listener runs again, so what has arrived so far is never read
Stalled(req) ==
    [req EXCEPT !.state = "stalled", !.statusCode = None, !.data = <<>>,
                !.body = <<>>, !.rest = <<>>]

----------------------------------------------------------------------------
(* logTranscript *)

\* the exception prepareLogEntry throws, as the catch block sees it
ExceptionError(name) == [message |-> name, statusCode |-> None, detail |-> <<>>]

\* a logTranscript call
Call(origin, transcript, pc, requests, req, send, outcome) ==
    [origin     |-> origin,       \* "direct", or "batch" for a call logTranscripts makes
     overlapped |-> FALSE,        \* whether another call was in flight when it was made
     transcript |-> transcript,
     pc         |-> pc,           \* "await": at await sendToLoki; "resume": its
                                  \* promise has settled; "done": the call has settled
     requests   |-> requests,     \* the number of push requests the call has issued
     req        |-> req,          \* its push request
     send       |-> send,         \* sendToLoki's promise
     outcome    |-> outcome]      \* logTranscript's promise

\* logTranscript without the test of this.enabled
LogTranscriptStartAlways(cfg, m, t, origin, transcript) ==
    IF PrepareThrows(transcript)
    THEN [call |-> Call(origin, transcript, "done", 0, NoRequest, Pending,
                        [kind |-> "rejected",
                         error |-> ExceptionError(PrepareException(transcript))]),
          metrics |-> UpdateMetrics(m, "error", t)]
    ELSE [call |-> Call(origin, transcript, "await", 1,
                        NewRequest(PushOptions(cfg, PrepareLogEntry(cfg, transcript))),
                        Pending, Pending),
          metrics |-> m]

\* logTranscript that counts a success on a disabled client
LogTranscriptStartDisabledCounts(cfg, m, t, origin, transcript) ==
    IF ~cfg.enabled
    THEN [call |-> Call(origin, transcript, "done", 0, NoRequest, Pending,
                        [kind |-> "resolved"]),
          metrics |-> UpdateMetrics(m, "success", t)]
    ELSE IF PrepareThrows(transcript)
    THEN [call |-> Call(origin, transcript, "done", 0, NoRequest, Pending,
                        [kind |-> "rejected",
                         error |-> ExceptionError(PrepareException(transcript))]),
          metrics |-> UpdateMetrics(m, "error", t)]
    ELSE [call |-> Call(origin, transcript, "await", 1,
                        NewRequest(PushOptions(cfg, PrepareLogEntry(cfg, transcript))),
                        Pending, Pending),
          metrics |-> m]

\* logTranscript that counts the success when it issues the request
LogTranscriptStartEager(cfg, m, t, origin, transcript) ==
    IF ~cfg.enabled
    THEN [call |-> Call(origin, transcript, "done", 0, NoRequest, Pending,
                        [kind |-> "resolved"]),
          metrics |-> m]
    ELSE IF PrepareThrows(transcript)
    THEN [call |-> Call(origin, transcript, "done", 0, NoRequest, Pending,
                        [kind |-> "rejected",
                         error |-> ExceptionError(PrepareException(transcript))]),
          metrics |-> UpdateMetrics(m, "error", t)]
    ELSE [call |-> Call(origin, transcript, "await", 1,
                        NewRequest(PushOptions(cfg, PrepareLogEntry(cfg, transcript))),
                        Pending, Pending),
          metrics |-> UpdateMetrics(m, "success", t)]

\* logTranscript(transcript) up to its first await: the call record and the
\* counters after it
LogTranscriptStart(cfg, m, t, origin, transcript) ==
    IF ~cfg.enabled
    THEN [call |-> Call(origin, transcript, "done", 0, NoRequest, Pending,
                        [kind |-> "resolved"]),
          metrics |-> m]
    ELSE IF PrepareThrows(transcript)
    THEN [call |-> Call(origin, transcript, "done", 0, NoRequest, Pending,
                        [kind |-> "rejected",
                         error |-> ExceptionError(PrepareException(transcript))]),
          metrics |-> UpdateMetrics(m, "error", t)]
    ELSE [call |-> Call(origin, transcript, "await", 1,
                        NewRequest(PushOptions(cfg, PrepareLogEntry(cfg, transcript))),
                        Pending, Pending),
          metrics |-> m]

\* logTranscript with a catch block that sends the entry again after a first failure
LogTranscriptResumedRetry(call, m, t) ==
    IF call.send.kind = "resolved"
    THEN [call |-> [call EXCEPT !.pc = "done", !.outcome = [kind |-> "resolved"]],
          metrics |-> UpdateMetrics(m, "success", t)]
    ELSE IF call.requests < 2
    THEN [call |-> [call EXCEPT !.pc = "await", !.requests = @ + 1,
                                !.req = NewRequest(call.req.options),
                                !.send = Pending],
          metrics |-> m]
    ELSE [call |-> [call EXCEPT !.pc = "done",
                                !.outcome = [kind |-> "rejected",
                                             error |-> call.send.error]],
          metrics |-> UpdateMetrics(m, "error", t)]

\* logTranscript after await sendToLoki: the try block's remainder, or the catch block
LogTranscriptResumed(call, m, t) ==
    IF call.send.kind = "resolved"
    THEN [call |-> [call EXCEPT !.pc = "done", !.outcome = [kind |-> "resolved"]],
          metrics |-> UpdateMetrics(m, "success", t)]
    ELSE [call |-> [call EXCEPT !.pc = "done",
                                !.outcome = [kind |-> "rejected",
                                             error |-> call.send.error]],
          metrics |-> UpdateMetrics(m, "error", t)]

\* the calls that have not settled
InFlight == {c \in DOMAIN calls : calls[c].pc # "done"}

\* the direct calls made so far
DirectCalls == {c \in DOMAIN calls : calls[c].origin = "direct"}

\* a caller calls logTranscript(transcript)
LogTranscript(transcript) ==
    /\ Cardinality(DirectCalls) < MaxCalls
    /\ LET r == LogTranscriptStart(config, metrics, now, "direct", transcript)
       IN  /\ calls' = Append(calls, [r.call EXCEPT !.overlapped = InFlight # {}])
           /\ metrics' = r.metrics
    /\ UNCHANGED <<objects, config, now, batch, searches, stats>>

\* the backend answers the push request of call c: the response callback runs
PushResponse(c, statusCode, body) ==
    /\ calls[c].req.state = "sent"
    /\ calls' = [calls EXCEPT ![c].req = OnResponse(@, statusCode, body)]
    /\ UNCHANGED <<objects, config, metrics, now, batch, searches, stats>>

\* a chunk of the push response arrives: the 'data' listener runs
PushData(c) ==
    /\ calls[c].req.state = "response"
    /\ calls[c].req.rest # <<>>
    /\ calls' = [calls EXCEPT ![c].req = OnData(@)]
    /\ UNCHANGED <<objects, config, metrics, now, batch, searches, stats>>

\* the push response is complete: the 'end' listener runs
PushEnd(c) ==
    /\ calls[c].req.state = "response"
    /\ calls[c].req.rest = <<>>
    /\ calls' = [calls EXCEPT
                   ![c].req = Closed(@),
                   ![c].send = PushEndResult(Get(calls[c].req.statusCode),
                                             calls[c].req.data),
                   ![c].pc = "resume"]
    /\ UNCHANGED <<objects, config, metrics, now, batch, searches, stats>>

\* the transport fails before a response: the 'error' listener of the request runs
PushError(c, err) ==
    /\ calls[c].req.state = "sent"
    /\ calls' = [calls EXCEPT ![c].req = Closed(@),
                              ![c].send = PushErrorResult(err),
                              ![c].pc = "resume"]
    /\ UNCHANGED <<objects, config, metrics, now, batch, searches, stats>>

\* the backend never answers the push, or stops answering mid-response: no
\* event of the request or the response fires any more
PushStall(c) ==
    /\ calls[c].req.state \in {"sent", "response"}
    /\ calls' = [calls EXCEPT ![c].req = Stalled(@)]
    /\ UNCHANGED <<objects, config, metrics, now, batch, searches, stats>>

\* the values Date.now() may return: the clock never runs backwards
ClockReadings == now .. (BaseNow + MaxTicks)

\* the continuation of logTranscript after await sendToLoki; updateMetrics
\* reads the clock on success only
LogTranscriptResume(c) ==
    /\ calls[c].pc = "resume"
    /\ \E t \in ClockReadings :
         LET r == LogTranscriptResumed(calls[c], metrics, t)
         IN  /\ calls' = [calls EXCEPT ![c] = r.call]
             /\ metrics' = r.metrics
             /\ now' = IF calls[c].send.kind = "resolved" THEN t ELSE now
    /\ UNCHANGED <<objects, config, batch, searches, stats>>

----------------------------------------------------------------------------
(* logTranscripts *)

\* no logTranscripts call has been made
NoBatch == [pc |-> "idle"]

\* logTranscripts(transcripts) at the head of its loop
BatchLoop(transcripts, i, results, base) ==
    [pc          |-> "loop",
     transcripts |-> transcripts,
     i           |-> i,          \* the number of items the loop has finished
     results     |-> results,
     call        |-> 0,          \* the logTranscript call being awaited, if any
     base        |-> base]       \* the counters when logTranscripts was called

\* a loop body that reports every item as a success
BatchResultSuccess(transcript, outcome) ==
    [transcript |-> transcript, status |-> "success"]

\* the entry results.push adds for a settled logTranscript call
BatchResult(transcript, outcome) ==
    IF outcome.kind = "resolved"
    THEN [transcript |-> transcript, status |-> "success"]
    ELSE [transcript |-> transcript, status |-> "error", error |-> outcome.error]

\* the transcripts of a batch: one that can be pushed and one prepareLogEntry throws on
BatchTranscripts == {ZaraTranscript, BrokenTranscript}

\* the batches handed to logTranscripts
Batches == UNION { [1..n -> BatchTranscripts] : n \in 0..MaxBatch }

\* a caller calls logTranscripts(transcripts)
LogTranscripts(transcripts) ==
    /\ batch.pc = "idle"
    /\ batch' = BatchLoop(transcripts, 0, <<>>, metrics)
    /\ UNCHANGED <<objects, config, metrics, now, calls, searches, stats>>

\* one turn of the loop: logTranscript(transcript) up to its await
BatchCall ==
    /\ batch.pc = "loop"
    /\ batch.call = 0
    /\ batch.i < Len(batch.transcripts)
    /\ LET r == LogTranscriptStart(config, metrics, now, "batch",
                                   batch.transcripts[batch.i + 1])
       IN  /\ calls' = Append(calls, r.call)
           /\ metrics' = r.metrics
           /\ batch' = [batch EXCEPT !.call = Len(calls) + 1]
    /\ UNCHANGED <<objects, config, now, searches, stats>>

\* a loop that does not await logTranscript and reports the item at once
BatchCollectNoAwait ==
    /\ batch.pc = "loop"
    /\ batch.call # 0
    /\ batch' = [batch EXCEPT
                   !.results = Append(@, [transcript |-> calls[batch.call].transcript,
                                          status |-> "success"]),
                   !.i = @ + 1,
                   !.call = 0]
    /\ UNCHANGED <<objects, config, metrics, now, calls, searches, stats>>

\* the awaited logTranscript call has settled: results.push, next item
BatchCollect ==
    /\ batch.pc = "loop"
    /\ batch.call # 0
    /\ calls[batch.call].pc = "done"
    /\ batch' = [batch EXCEPT
                   !.results = Append(@, BatchResult(calls[batch.call].transcript,
                                                     calls[batch.call].outcome)),
                   !.i = @ + 1,
                   !.call = 0]
    /\ UNCHANGED <<objects, config, metrics, now, calls, searches, stats>>

\* the loop is over: return results
BatchReturn ==
    /\ batch.pc = "loop"
    /\ batch.call = 0
    /\ batch.i = Len(batch.transcripts)
    /\ batch' = [batch EXCEPT !.pc = "done"]
    /\ UNCHANGED <<objects, config, metrics, now, calls, searches, stats>>

----------------------------------------------------------------------------
(* Specifications of the ingestion path *)

\* no query has been made
NoStats == [pc |-> "idle"]

\* the process holds one client only
NoInstances == heap = <<>> /\ instances = <<>> /\ returned = <<>>

\* a freshly constructed client
Init ==
    /\ config \in {Constructor(o) : o \in OptionsSet}
    /\ metrics = InitialMetrics
    /\ now = BaseNow
    /\ calls = <<>>
    /\ batch = NoBatch
    /\ searches = <<>>
    /\ stats = NoStats
    /\ NoInstances

\* the events of a push request
PushEvents ==
    \E c \in DOMAIN calls :
        \/ \E s \in StatusCodes, b \in PushBodies : PushResponse(c, s, b)
        \/ PushData(c)
        \/ PushEnd(c)
        \/ \E e \in TransportErrors : PushError(c, e)
        \/ PushStall(c)
        \/ LogTranscriptResume(c)

\* concurrent direct logTranscript calls
Next ==
    \/ \E t \in Transcripts : LogTranscript(t)
    \/ PushEvents

Spec == Init /\ [][Next]_vars

\* one logTranscripts call
BatchNext ==
    \/ \E ts \in Batches : LogTranscripts(ts)
    \/ BatchCall
    \/ BatchCollect
    \/ BatchReturn
    \/ PushEvents

\* the counters of a client that is handed a batch: fresh, or as one earlier
\* success and one earlier failure left them
EarlierMetrics ==
    { InitialMetrics,
      UpdateMetrics(UpdateMetrics(InitialMetrics, "success", BaseNow), "error", BaseNow) }

BatchInit ==
    /\ config \in {Constructor(o) : o \in OptionsSet}
    /\ metrics \in EarlierMetrics
    /\ now = BaseNow
    /\ calls = <<>>
    /\ batch = NoBatch
    /\ searches = <<>>
    /\ stats = NoStats
    /\ NoInstances

BatchSpec == BatchInit /\ [][BatchNext]_vars

----------------------------------------------------------------------------
(* The query endpoint's responses *)

\* the pieces a response body of the query endpoint arrives in
OpenTok == [tok |-> "{data:{result:["]
StreamTok(n) == [tok |-> "{stream,values}", values |-> n]
CloseTok == [tok |-> "]}}"]
ErrorObjectTok == [tok |-> "{status:error}"]
TextTok == [tok |-> "text"]

\* a query result with one stream per element of counts, holding that many values
ResultBody(counts) ==
    <<OpenTok>> \o [i \in 1..Len(counts) |-> StreamTok(counts[i])] \o <<CloseTok>>

\* the bodies the query endpoint answers with: results of zero and one
\* stream, a JSON error object, plain text and a result cut short, each in
\* one chunk, and a result of two streams in two chunks
QueryBodies ==
    { <<b>> : b \in { ResultBody(<<>>), ResultBody(<<2>>), <<ErrorObjectTok>>,
                      <<TextTok>>, <<OpenTok, StreamTok(1)>> } }
      \cup { << <<OpenTok, StreamTok(1)>>, <<StreamTok(2), CloseTok>> >> }

\* JSON.parse(data): the value, or a SyntaxError
JSONParse(data) ==
    IF data = <<ErrorObjectTok>>
    THEN [ok |-> TRUE, value |-> [status |-> "error"]]
    ELSE IF /\ Len(data) >= 2
            /\ data[1] = OpenTok
            /\ data[Len(data)] = CloseTok
            /\ \A i \in 2..(Len(data) - 1) : data[i].tok = "{stream,values}"
    THEN [ok |-> TRUE,
          value |-> [data |-> [result |->
              [i \in 1..(Len(data) - 2) |->
                  [values |-> [j \in 1..data[i + 1].values |-> j]]]]]]
    ELSE [ok |-> FALSE, error |-> "SyntaxError"]

----------------------------------------------------------------------------
(* searchTranscripts *)

\* 24 * 60 * 60 * 1000
DayMillis == 86400000

\* the label selector getTranscriptStats builds
Selector(job, messageType) == [job |-> job, message_type |-> messageType]

\* encodeURIComponent(query)
EncodeURIComponent(query) == [encoded |-> query]

\* query options whose end bound is sent as given, in milliseconds
QueryOptionsEndMillis(cfg, query, start, end) ==
    [target |-> Target("localhost", 3100),
     path   |-> [endpoint |-> "/loki/api/v1/query_range",
                 query    |-> EncodeURIComponent(query),
                 start    |-> TimesToString(start, 1000000),
                 end      |-> Digits(end)],
     method |-> "GET"]

\* the options of the query request
QueryOptions(cfg, query, start, end) ==
    [target |-> Target("localhost", 3100),
     path   |-> [endpoint |-> "/loki/api/v1/query_range",
                 query    |-> EncodeURIComponent(query),
                 start    |-> TimesToString(start, 1000000),
                 end      |-> TimesToString(end, 1000000)],
     method |-> "GET"]

\* startTime || now - 24h, for the clock reading t1
SearchStart(startTime, t1) ==
    IF IsSome(startTime) /\ Get(startTime) # 0 THEN Get(startTime) ELSE t1 - DayMillis

\* endTime || now, for the clock reading t2
SearchEnd(endTime, t2) ==
    IF IsSome(endTime) /\ Get(endTime) # 0 THEN Get(endTime) ELSE t2

\* how the 'end' listener of the query response settles the promise
SearchEndResult(statusCode, data) ==
    LET parsed == JSONParse(data)
    IN  IF parsed.ok
        THEN [kind |-> "resolved", value |-> parsed.value]
        ELSE [kind |-> "rejected",
              error |-> [message |-> "Failed to parse Loki response",
                         statusCode |-> None, detail |-> <<parsed.error>>]]

\* how the 'error' listener of the query request settles the promise
SearchErrorResult(err) ==
    [kind |-> "rejected",
     error |-> [message |-> "Failed to query Loki", statusCode |-> None,
                detail |-> <<err>>]]

\* a searchTranscripts call: who made it, the arguments startTime and endTime
\* it was given, the clock when it was made, its locals start and end, its
\* request and its promise
Search(origin, startTime, endTime, at, start, end, req) ==
    [origin |-> origin, startTime |-> startTime, endTime |-> endTime, at |-> at,
     start |-> start, end |-> end, req |-> req, outcome |-> Pending]

\* searchTranscripts(query, startTime, endTime) with the clock readings t1 and t2
SearchTranscriptsStart(cfg, origin, query, startTime, endTime, t1, t2) ==
    LET start == SearchStart(startTime, t1)
        end   == SearchEnd(endTime, t2)
    IN  Search(origin, startTime, endTime, t2, start, end,
               NewRequest(QueryOptions(cfg, query, start, end)))

\* the direct searchTranscripts calls made so far
DirectSearches == {q \in DOMAIN searches : searches[q].origin = "direct"}

\* the number of direct searchTranscripts calls
MaxSearches == 1

\* the startTime and endTime callers pass: neither, only an end before the
\* clock's time, both zero, and both a time before the clock's
SearchBounds ==
    { <<None, None>>, <<None, Some(BaseNow - 1)>>, <<Some(0), Some(0)>>,
      <<Some(BaseNow - 1), Some(BaseNow - 1)>> }

\* a caller calls searchTranscripts(query, startTime, endTime); each omitted
\* bound reads the clock
SearchTranscripts(query, startTime, endTime) ==
    /\ Cardinality(DirectSearches) < MaxSearches
    /\ \E t1 \in (IF SearchStart(startTime, now) = SearchStart(startTime, now + 1)
                  THEN {now} ELSE ClockReadings) :
         \E t2 \in (IF SearchEnd(endTime, t1) = SearchEnd(endTime, t1 + 1)
                    THEN {t1} ELSE t1 .. (BaseNow + MaxTicks)) :
            /\ searches' = Append(searches,
                  SearchTranscriptsStart(config, "direct", query, startTime, endTime,
                                         t1, t2))
            /\ now' = t2
    /\ UNCHANGED <<objects, config, metrics, calls, batch, stats>>

\* the backend answers the query of search q: the response callback runs
SearchResponse(q, statusCode, body) ==
    /\ searches[q].req.state = "sent"
    /\ searches' = [searches EXCEPT ![q].req = OnResponse(@, statusCode, body)]
    /\ UNCHANGED <<objects, config, metrics, now, calls, batch, stats>>

\* a chunk of the query response arrives: the 'data' listener runs
SearchData(q) ==
    /\ searches[q].req.state = "response"
    /\ searches[q].req.rest # <<>>
    /\ searches' = [searches EXCEPT ![q].req = OnData(@)]
    /\ UNCHANGED <<objects, config, metrics, now, calls, batch, stats>>

\* the query response is complete: the 'end' listener runs
SearchEnded(q) ==
    /\ searches[q].req.state = "response"
    /\ searches[q].req.rest = <<>>
    /\ searches' = [searches EXCEPT
                      ![q].req = Closed(@),
                      ![q].outcome = SearchEndResult(Get(searches[q].req.statusCode),
                                                     searches[q].req.data)]
    /\ UNCHANGED <<objects, config, metrics, now, calls, batch, stats>>

\* the transport fails before a response: the 'error' listener of the request runs
SearchError(q, err) ==
    /\ searches[q].req.state = "sent"
    /\ searches' = [searches EXCEPT ![q].req = Closed(@),
                                    ![q].outcome = SearchErrorResult(err)]
    /\ UNCHANGED <<objects, config, metrics, now, calls, batch, stats>>

\* the backend never answers the query, or stops answering mid-response
SearchStall(q) ==
    /\ searches[q].req.state \in {"sent", "response"}
    /\ searches' = [searches EXCEPT ![q].req = Stalled(@)]
    /\ UNCHANGED <<objects, config, metrics, now, calls, batch, stats>>

----------------------------------------------------------------------------
(* getTranscriptStats *)

\* 60 * 60 * 1000
HourMillis == 3600000

\* a switch whose default case is the 24-hour window
WindowStartDefaultDay(timeRange, end) ==
    CASE timeRange = "1h"  -> end - HourMillis
      [] timeRange = "24h" -> end - 24 * HourMillis
      [] timeRange = "7d"  -> end - 7 * 24 * HourMillis
      [] OTHER             -> end - 24 * HourMillis

\* the switch on timeRange: the start of the window that ends at end
WindowStart(timeRange, end) ==
    CASE timeRange = "1h"  -> end - HourMillis
      [] timeRange = "24h" -> end - 24 * HourMillis
      [] timeRange = "7d"  -> end - 7 * 24 * HourMillis
      [] OTHER             -> end - HourMillis

\* logs.data?.result?.[0]?.values?.length || 0
FirstStreamLength(logs) ==
    IF "data" \in DOMAIN logs /\ Len(logs.data.result) > 0
    THEN Len(logs.data.result[1].values)
    ELSE 0

\* a statistics object whose total is the user count alone
StatsObjectTotalUser(timeRange, userLogs, zaraLogs, start, end) ==
    [timeRange     |-> timeRange,
     userMessages  |-> FirstStreamLength(userLogs),
     zaraMessages  |-> FirstStreamLength(zaraLogs),
     totalMessages |-> FirstStreamLength(userLogs),
     startTime     |-> ToISOString(start),
     endTime       |-> ToISOString(end)]

\* the object getTranscriptStats returns when both queries resolve
StatsObject(timeRange, userLogs, zaraLogs, start, end) ==
    [timeRange     |-> timeRange,
     userMessages  |-> FirstStreamLength(userLogs),
     zaraMessages  |-> FirstStreamLength(zaraLogs),
     totalMessages |-> FirstStreamLength(userLogs) + FirstStreamLength(zaraLogs),
     startTime     |-> ToISOString(start),
     endTime       |-> ToISOString(end)]

\* the named windows callers ask for; the last one is not a window the switch knows
TimeRanges == {"1h", "24h", "7d", "30d"}

\* whether Promise.all over the two searches has settled: both resolved, or one rejected
AllSettled(u, z) ==
    \/ u.outcome.kind = "resolved" /\ z.outcome.kind = "resolved"
    \/ u.outcome.kind = "rejected"
    \/ z.outcome.kind = "rejected"

\* what getTranscriptStats returns once Promise.all has settled: the
\* statistics, or null from the catch block
StatsReturn(timeRange, u, z, start, end) ==
    IF u.outcome.kind = "resolved" /\ z.outcome.kind = "resolved"
    THEN Some(StatsObject(timeRange, u.outcome.value, z.outcome.value, start, end))
    ELSE None

\* a caller calls getTranscriptStats(timeRange): the clock is read, both
\* searches are started, and the call awaits Promise.all
GetTranscriptStats(timeRange) ==
    /\ stats.pc = "idle"
    /\ \E end \in ClockReadings :
         LET start == WindowStart(timeRange, end)
             userQuery == Selector(config.serviceName, "user")
             zaraQuery == Selector(config.serviceName, "zara")
         IN  /\ searches' = searches \o
                   << SearchTranscriptsStart(config, "user", userQuery, Some(start),
                                             Some(end), end, end),
                      SearchTranscriptsStart(config, "zara", zaraQuery, Some(start),
                                             Some(end), end, end) >>
             /\ stats' = [pc        |-> "await",
                          timeRange |-> timeRange,
                          start     |-> start,
                          end       |-> end,
                          user      |-> Len(searches) + 1,
                          zara      |-> Len(searches) + 2,
                          outcome   |-> Pending]
             /\ now' = end
    /\ UNCHANGED <<objects, config, metrics, calls, batch>>

\* a continuation that counts a failed query as an error of the client
GetTranscriptStatsResumeCounting ==
    /\ stats.pc = "await"
    /\ AllSettled(searches[stats.user], searches[stats.zara])
    /\ stats' = [stats EXCEPT
                   !.pc = "done",
                   !.outcome = [kind  |-> "resolved",
                                value |-> StatsReturn(stats.timeRange,
                                                      searches[stats.user],
                                                      searches[stats.zara],
                                                      stats.start, stats.end)]]
    /\ metrics' = IF searches[stats.user].outcome.kind = "resolved"
                     /\ searches[stats.zara].outcome.kind = "resolved"
                  THEN metrics
                  ELSE UpdateMetrics(metrics, "error", now)
    /\ UNCHANGED <<objects, config, now, calls, batch, searches>>

\* a continuation without the catch block: a failed query rejects the call
GetTranscriptStatsResumeRethrow ==
    /\ stats.pc = "await"
    /\ AllSettled(searches[stats.user], searches[stats.zara])
    /\ stats' = [stats EXCEPT
                   !.pc = "done",
                   !.outcome =
                      IF searches[stats.user].outcome.kind = "resolved"
                         /\ searches[stats.zara].outcome.kind = "resolved"
                      THEN [kind  |-> "resolved",
                            value |-> StatsReturn(stats.timeRange,
                                                  searches[stats.user],
                                                  searches[stats.zara],
                                                  stats.start, stats.end)]
                      ELSE [kind |-> "rejected", value |-> None]]
    /\ UNCHANGED <<objects, config, metrics, now, calls, batch, searches>>

\* the continuation of getTranscriptStats after await Promise.all
GetTranscriptStatsResume ==
    /\ stats.pc = "await"
    /\ AllSettled(searches[stats.user], searches[stats.zara])
    /\ stats' = [stats EXCEPT
                   !.pc = "done",
                   !.outcome = [kind  |-> "resolved",
                                value |-> StatsReturn(stats.timeRange,
                                                      searches[stats.user],
                                                      searches[stats.zara],
                                                      stats.start, stats.end)]]
    /\ UNCHANGED <<objects, config, metrics, now, calls, batch, searches>>

----------------------------------------------------------------------------
(* Specifications of the query path *)

\* the events of a query request
SearchEvents ==
    \E q \in DOMAIN searches :
        \/ \E s \in StatusCodes, b \in QueryBodies : SearchResponse(q, s, b)
        \/ SearchData(q)
        \/ SearchEnded(q)
        \/ \E e \in TransportErrors : SearchError(q, e)
        \/ SearchStall(q)

\* the selectors callers search with
Queries == {Selector(DefaultServiceName, "user")}

\* direct searchTranscripts calls
SearchNext ==
    \/ \E query \in Queries, bounds \in SearchBounds :
          SearchTranscripts(query, bounds[1], bounds[2])
    \/ SearchEvents

SearchSpec == Init /\ [][SearchNext]_vars

\* one getTranscriptStats call
StatsNext ==
    \/ \E timeRange \in TimeRanges : GetTranscriptStats(timeRange)
    \/ GetTranscriptStatsResume
    \/ SearchEvents

StatsSpec == Init /\ [][StatsNext]_vars

----------------------------------------------------------------------------
(* A specification with fairness: one push and one query *)

\* the steps that follow once the backend or the transport has acted on the
\* push of call c, and that action itself
PushProgress(c) ==
    /\ c \in DOMAIN calls
    /\ \/ \E s \in StatusCodes, b \in PushBodies : PushResponse(c, s, b)
       \/ PushData(c)
       \/ PushEnd(c)
       \/ \E e \in TransportErrors : PushError(c, e)
       \/ LogTranscriptResume(c)

\* the same for the query of search q
SearchProgress(q) ==
    /\ q \in DOMAIN searches
    /\ \/ \E s \in StatusCodes, b \in QueryBodies : SearchResponse(q, s, b)
       \/ SearchData(q)
       \/ SearchEnded(q)
       \/ \E e \in TransportErrors : SearchError(q, e)

\* one logTranscript call and one searchTranscripts call, in flight together
FairNext ==
    \/ \E t \in Transcripts : calls = <<>> /\ LogTranscript(t)
    \/ \E query \in Queries, bounds \in SearchBounds :
          SearchTranscripts(query, bounds[1], bounds[2])
    \/ PushEvents
    \/ SearchEvents

\* the event loop runs every callback that is due, and a backend that has not
\* stalled goes on answering; only a stalled request is left without events
FairSpec ==
    /\ Init
    /\ [][FairNext]_vars
    /\ \A c \in 1..MaxCalls : WF_vars(PushProgress(c))
    /\ \A q \in 1..MaxSearches : WF_vars(SearchProgress(q))



----------------------------------------------------------------------------
(* A specification of prepareLogEntry over transcripts of every shape *)

\* metadata.safetyFlags: missing, empty, the one flag none, and two flags in
\* either order
FlagLists ==
    {None, Some(<<>>), Some(<<"none">>), Some(<<"pii", "profanity">>),
     Some(<<"profanity", "pii">>)}

\* metadata.vocabularyComplexity and metadata.grammarComplexity: missing,
\* without a level, with an empty level and with a level
Complexities ==
    {None, Some([level |-> None]), Some([level |-> Some("")]),
     Some([level |-> Some("simple")])}

\* context.conversationFlow: missing, empty and present
Flows == {None, Some(""), Some("start")}

\* context.userIntent: missing, empty and present
Intents == {None, Some(""), Some("greeting")}

\* transcript.metadata: missing, or with any of the fields above
Metadatas ==
    {None} \cup { Some(Metadata(f, v, g, None, None)) :
                      f \in FlagLists, v \in Complexities, g \in Complexities }

\* transcript.context: missing, or with any of the fields above
Contexts == {None} \cup { Some(Context(f, i)) : f \in Flows, i \in Intents }

\* transcript.timestamp: a whole number of milliseconds, and one with half a
\* millisecond more
Timestamps == {Whole(1705312200), Number(1000, 500000)}

\* user turns with every timestamp, metadata and context
LabelTranscripts ==
    { Transcript("s1", Some(1), Some(ts), "user", Some(<<"h", "i">>), m, c) :
        ts \in Timestamps, m \in Metadatas, c \in Contexts }

\* one logTranscript call, which builds the log entry of its transcript
LabelNext == \E t \in LabelTranscripts : calls = <<>> /\ LogTranscript(t)

LabelSpec == Init /\ [][LabelNext]_vars
----------------------------------------------------------------------------
(* A specification with clients configured for different backends *)

\* the backend address of a client that is not the default one
RemoteLokiEndpoint == "http://loki.internal:3200"

\* the options of a client with the default backend address and of a client
\* with another one
EndpointOptions ==
    { [lokiEndpoint |-> l, serviceName |-> None, enabled |-> None] :
        l \in {None, Some(RemoteLokiEndpoint)} }

\* the state after constructing either client
EndpointInit ==
    /\ config \in {Constructor(o) : o \in EndpointOptions}
    /\ metrics = InitialMetrics
    /\ now = BaseNow
    /\ calls = <<>>
    /\ batch = NoBatch
    /\ searches = <<>>
    /\ stats = NoStats
    /\ NoInstances

\* one push and one query by either client
EndpointSpec == EndpointInit /\ [][FairNext]_vars

----------------------------------------------------------------------------
(* Several clients in one process, and the objects getMetrics returns *)

\* the number of logTranscript calls that settle on one client
MaxPushes == 2
\* the number of getMetrics calls
MaxSnapshots == 1

\* evaluating an object literal: a new object on the heap and its reference
Allocate(h, object) == [ref |-> Len(h) + 1, heap |-> Append(h, object)]

\* a constructor that hands every client the same metrics object
ConstructMetricsShared(h) ==
    IF h = <<>> THEN Allocate(h, InitialMetrics) ELSE [ref |-> 1, heap |-> h]

\* this.metrics = { ... } in the constructor
ConstructMetrics(h) == Allocate(h, InitialMetrics)

\* getMetrics that returns this.metrics itself
GetMetricsObjectAlias(h, ref) == [ref |-> ref, heap |-> h]

\* getMetrics(): return { ... }, for the client whose this.metrics is ref
GetMetricsObject(h, ref) == Allocate(h, GetMetrics(h[ref]))

\* a client: its this.metrics, and how many of its calls have resolved and
\* how many have been rejected
Instance(ref) == [metrics |-> ref, resolved |-> 0, rejected |-> 0]

\* the state after two clients have been constructed
ObjectInit ==
    /\ config = Constructor([lokiEndpoint |-> None, serviceName |-> None,
                             enabled |-> None])
    /\ metrics = InitialMetrics
    /\ now = BaseNow
    /\ calls = <<>>
    /\ batch = NoBatch
    /\ searches = <<>>
    /\ stats = NoStats
    /\ LET first  == ConstructMetrics(<<>>)
           second == ConstructMetrics(first.heap)
       IN  /\ heap = second.heap
           /\ instances = <<Instance(first.ref), Instance(second.ref)>>
    /\ returned = <<>>

\* what sendToLoki's promise settles with
SendResults == {[kind |-> "resolved"]} \cup {PushErrorResult(e) : e \in TransportErrors}

\* a logTranscript(transcript) call on client i, from the call to its end,
\* its push settling with result: the counters it leaves in this.metrics
InstanceLogTranscript(i, transcript, result) ==
    /\ instances[i].resolved + instances[i].rejected < MaxPushes
    /\ \E t \in ClockReadings :
         LET ref     == instances[i].metrics
             start   == LogTranscriptStart(config, heap[ref], now, "direct", transcript)
             resumed == LogTranscriptResumed([start.call EXCEPT !.send = result],
                                             start.metrics, t)
             end     == IF start.call.pc = "done" THEN start ELSE resumed
         IN  /\ heap' = [heap EXCEPT ![ref] = end.metrics]
             /\ instances' =
                   IF end.call.outcome.kind = "resolved"
                   THEN [instances EXCEPT ![i].resolved = @ + 1]
                   ELSE [instances EXCEPT ![i].rejected = @ + 1]
             /\ now' = IF end.call.outcome.kind = "resolved" THEN t ELSE now
    /\ UNCHANGED <<config, metrics, calls, batch, searches, stats, returned>>

\* a caller calls getMetrics() on client i and keeps the object it returns
InstanceGetMetrics(i) ==
    /\ Len(returned) < MaxSnapshots
    /\ LET r == GetMetricsObject(heap, instances[i].metrics)
       IN  /\ heap' = r.heap
           /\ returned' = Append(returned, [instance |-> i, object |-> r.ref])
    /\ UNCHANGED <<config, metrics, now, calls, batch, searches, stats, instances>>

\* the value a caller writes into an object it was returned
Overwritten == 7

\* object.name = value: the property is set, or added if the object has none
SetProperty(object, name, value) ==
    [f \in DOMAIN object \cup {name} |-> IF f = name THEN value ELSE object[f]]

\* the caller that holds the k-th returned object assigns to its
\* transcript_entries_total
CallerWrites(k) ==
    /\ heap[returned[k].object] #
          SetProperty(heap[returned[k].object], "transcript_entries_total", Overwritten)
    /\ heap' = [heap EXCEPT ![returned[k].object] =
                   SetProperty(@, "transcript_entries_total", Overwritten)]
    /\ UNCHANGED <<config, metrics, now, calls, batch, searches, stats, instances,
                   returned>>

\* two clients, their calls, and the callers of getMetrics
ObjectNext ==
    \/ \E i \in DOMAIN instances, t \in BatchTranscripts, r \in SendResults :
          InstanceLogTranscript(i, t, r)
    \/ \E i \in DOMAIN instances : InstanceGetMetrics(i)
    \/ \E k \in DOMAIN returned : CallerWrites(k)

ObjectSpec == ObjectInit /\ [][ObjectNext]_vars
----------------------------------------------------------------------------
(* Properties of the ingestion path *)

\* the push request of call cl was answered with a status in 200..299
Answered2xx(cl) ==
    /\ cl.req.state = "closed"
    /\ IsSome(cl.req.statusCode)
    /\ Get(cl.req.statusCode) \in 200..299

\* call c settles in this step
Settles(c) ==
    /\ calls'[c].pc = "done"
    /\ c \in DOMAIN calls => calls[c].pc # "done"

\* C1: on an enabled client, a logTranscript call whose push is answered with
\* a 2xx status resolves, adds exactly 1 to transcript_entries_total and sets
\* last_transcript_timestamp to the clock reading; a call that ends any other
\* way (another status, a transport failure, an exception) rejects and adds
\* exactly 1 to transcript_errors_total; the other counter stays as it is, and
\* the counters change in no other step.
C1_PushOutcomeCounted ==
    [][ /\ \A c \in DOMAIN calls' :
            (config.enabled /\ Settles(c)) =>
                IF Answered2xx(calls'[c])
                THEN /\ calls'[c].outcome.kind = "resolved"
                     /\ metrics'.transcriptEntriesTotal = metrics.transcriptEntriesTotal + 1
                     /\ metrics'.transcriptErrorsTotal = metrics.transcriptErrorsTotal
                     /\ metrics'.lastTranscriptTimestamp = now'
                ELSE /\ calls'[c].outcome.kind = "rejected"
                     /\ metrics'.transcriptErrorsTotal = metrics.transcriptErrorsTotal + 1
                     /\ metrics'.transcriptEntriesTotal = metrics.transcriptEntriesTotal
                     /\ metrics'.lastTranscriptTimestamp = metrics.lastTranscriptTimestamp
        /\ metrics' # metrics => \E c \in DOMAIN calls' : Settles(c)
      ]_vars

\* an enabled client on which one call was answered 2xx and resolved, and
\* another was answered with another status and rejected
C1_Witness ==
    /\ config.enabled
    /\ \E c, d \in DOMAIN calls :
        /\ calls[c].pc = "done" /\ Answered2xx(calls[c])
        /\ calls[c].outcome.kind = "resolved"
        /\ calls[d].pc = "done" /\ calls[d].req.statusCode = Some(500)
        /\ calls[d].outcome.kind = "rejected"
    /\ metrics.transcriptEntriesTotal = 1
    /\ metrics.transcriptErrorsTotal = 1
    /\ metrics.lastTranscriptTimestamp = BaseNow + 1

\* item i of the batch was not accepted: its push was not answered with a 2xx status
ItemRejected(i) == ~Answered2xx(calls[i])

\* the rejected items of the batch
RejectedItems == {i \in 1..Len(batch.transcripts) : ItemRejected(i)}

\* C2: on an enabled client, logTranscripts returns one outcome per
\* transcript, in input order, with status 'error' exactly for the rejected
\* items and 'success' for the others, and the counters have grown by the
\* number of accepted and of rejected items.
C2_BatchIsolation ==
    (config.enabled /\ batch.pc = "done") =>
        LET n == Len(batch.transcripts)
            k == Cardinality(RejectedItems)
        IN  /\ Len(batch.results) = n
            /\ \A i \in 1..n :
                /\ batch.results[i].transcript = batch.transcripts[i]
                /\ batch.results[i].status = IF ItemRejected(i) THEN "error" ELSE "success"
            /\ metrics.transcriptEntriesTotal = batch.base.transcriptEntriesTotal + (n - k)
            /\ metrics.transcriptErrorsTotal = batch.base.transcriptErrorsTotal + k

\* a batch of three transcripts whose second push the backend answered with
\* status 500, on a client that had counted earlier pushes
C2_Witness ==
    /\ config.enabled
    /\ batch.pc = "done"
    /\ Len(batch.transcripts) = 3
    /\ batch.base.transcriptEntriesTotal = 1
    /\ calls[2].req.statusCode = Some(500)
    /\ <<batch.results[1].status, batch.results[2].status, batch.results[3].status>>
         = <<"success", "error", "success">>

\* C8: on a client constructed with enabled = false every logTranscript call
\* issues no request and resolves.
C8_DisabledNoRequest ==
    ~config.enabled =>
        \A c \in DOMAIN calls :
            /\ calls[c].requests = 0
            /\ calls[c].req.state = "none"
            /\ calls[c].pc = "done"
            /\ calls[c].outcome.kind = "resolved"

\* a disabled client that was handed two transcripts, one of them a
\* transcript prepareLogEntry throws on
C8_Witness ==
    /\ ~config.enabled
    /\ Len(calls) = 2
    /\ \E c \in DOMAIN calls : calls[c].transcript = BrokenTranscript
    /\ \E c \in DOMAIN calls : calls[c].transcript = UserTranscript

\* C9: a logTranscript call issues at most one push request, whatever its
\* outcome, and a batch of n transcripts issues at most n.
C9_NoRetry ==
    /\ \A c \in DOMAIN calls : calls[c].requests <= 1
    /\ batch.pc # "idle" =>
          SumSeq([c \in DOMAIN calls |->
                     IF calls[c].origin = "batch" THEN calls[c].requests ELSE 0])
            <= Len(batch.transcripts)

\* a finished batch of three whose pushes failed in both ways, by a status
\* and by the transport
C9_Witness ==
    /\ batch.pc = "done"
    /\ Len(batch.transcripts) = 3
    /\ \E c, d \in DOMAIN calls :
        /\ calls[c].outcome.kind = "rejected" /\ calls[c].req.statusCode = Some(500)
        /\ calls[d].outcome.kind = "rejected" /\ calls[d].req.state = "closed"
        /\ calls[d].req.statusCode = None
    /\ \A c \in DOMAIN calls : calls[c].requests = 1

\* the calls that resolved, and those that rejected
Resolved == {c \in DOMAIN calls : calls[c].outcome.kind = "resolved"}
Rejected == {c \in DOMAIN calls : calls[c].outcome.kind = "rejected"}

\* C10: once all the logTranscript calls made on an enabled client have
\* settled, whatever order their callbacks ran in, transcript_entries_total
\* has grown by the number that resolved and transcript_errors_total by the
\* number that rejected, N in all.
C10_NoLostIncrement ==
    (config.enabled /\ InFlight = {}) =>
        /\ metrics.transcriptEntriesTotal = Cardinality(Resolved)
        /\ metrics.transcriptErrorsTotal = Cardinality(Rejected)
        /\ metrics.transcriptEntriesTotal + metrics.transcriptErrorsTotal = Len(calls)

\* two calls that were in flight at once have both settled, both rejected
C10_Witness ==
    /\ config.enabled
    /\ Len(calls) = MaxCalls
    /\ InFlight = {}
    /\ \E c \in DOMAIN calls : calls[c].overlapped /\ calls[c].req.state = "closed"
    /\ Cardinality(Rejected) >= 2

\* C3: every logTranscript call and every searchTranscripts call eventually
\* settles, also when the backend never answers or stops answering
\* mid-response, and a push left without an answer is eventually counted in
\* transcript_errors_total.
C3_EveryCallSettles ==
    /\ \A c \in 1..MaxCalls :
          (c \in DOMAIN calls) ~> (c \in DOMAIN calls /\ calls[c].pc = "done")
    /\ \A q \in 1..MaxSearches :
          (q \in DOMAIN searches)
             ~> (q \in DOMAIN searches /\ searches[q].outcome.kind # "pending")
    /\ \A c \in 1..MaxCalls :
          (c \in DOMAIN calls /\ calls[c].req.state = "stalled")
             ~> (metrics.transcriptErrorsTotal > 0)

\* C6: the timestamp string of the value pair in the push request is the
\* transcript's timestamp, in seconds, times 10^9.
C6_TimestampNanos ==
    \A c \in DOMAIN calls :
        calls[c].req.state # "none" =>
            LET ts == Get(calls[c].transcript.timestamp).whole
            IN  calls[c].req.options.body.streams[1].values[1][1]
                  = IF ts = 0 THEN <<0>> ELSE Digits(ts) \o [i \in 1..9 |-> 0]

----------------------------------------------------------------------------
(* Properties of the query path *)

\* the query of search s failed: the transport failed, or the backend answered
\* with a status outside 200..299
QueryFailed(s) ==
    /\ s.req.state = "closed"
    /\ \/ ~IsSome(s.req.statusCode)
       \/ Get(s.req.statusCode) \notin 200..299

\* the number of log values in a response body, over all of its streams
ValuesReturned(body) ==
    SumSeq([i \in 1..Len(body) |->
               IF body[i].tok = "{stream,values}" THEN body[i].values ELSE 0])

\* C4: when at least one of the two category queries of getTranscriptStats
\* fails, the call reports failure and returns no statistics object.
C4_StatsFailClosed ==
    ( /\ stats.pc = "done"
      /\ QueryFailed(searches[stats.user]) \/ QueryFailed(searches[stats.zara]) )
        => stats.outcome.value = None

\* C5: the count getTranscriptStats returns for a category is the number of
\* log values the backend returned for that category's query, over all the
\* streams of the result.
C5_CountsAllStreams ==
    ( /\ stats.pc = "done"
      /\ IsSome(stats.outcome.value)
      /\ ~QueryFailed(searches[stats.user])
      /\ ~QueryFailed(searches[stats.zara]) )
        => /\ Get(stats.outcome.value).userMessages
                = ValuesReturned(searches[stats.user].req.data)
           /\ Get(stats.outcome.value).zaraMessages
                = ValuesReturned(searches[stats.zara].req.data)

\* C7: searchTranscripts rejects when the transport fails or the backend
\* answers with a status outside the success range, and resolves only for a
\* success status.
C7_SearchRejectsFailure ==
    \A q \in DOMAIN searches :
        /\ QueryFailed(searches[q]) => searches[q].outcome.kind = "rejected"
        /\ searches[q].outcome.kind = "resolved" =>
              /\ IsSome(searches[q].req.statusCode)
              /\ Get(searches[q].req.statusCode) \in 200..299

----------------------------------------------------------------------------
(* Properties of searchTranscripts *)

\* the decimal string of n * 10^k
Scaled(n, k) == IF n = 0 THEN <<0>> ELSE Digits(n) \o [i \in 1..k |-> 0]

\* the bound a caller supplied and searchTranscripts does not replace
Supplied(bound) == IsSome(bound) /\ Get(bound) # 0

\* C11 as stated: the start and end parameters of the query request are the
\* bounds the caller supplied, in seconds, each times 10^9.
C11_BoundsSecondsToNanos ==
    \A q \in DirectSearches :
        LET s == searches[q]
        IN  /\ IsSome(s.startTime) =>
                  s.req.options.path.start = Scaled(Get(s.startTime), 9)
            /\ IsSome(s.endTime) =>
                  s.req.options.path.end = Scaled(Get(s.endTime), 9)

\* C11: the bounds of searchTranscripts are in milliseconds and are sent in
\* nanoseconds: the start and end parameters of the query request are the
\* start and end the call uses (a supplied non-zero bound as given, otherwise
\* the default it substitutes), each times 10^6.
C11_BoundsMillisToNanos ==
    \A q \in DOMAIN searches :
        LET s == searches[q]
        IN  /\ s.req.options.path.start = Scaled(s.start, 6)
            /\ s.req.options.path.end = Scaled(s.end, 6)
            /\ Supplied(s.startTime) => s.start = Get(s.startTime)
            /\ Supplied(s.endTime) => s.end = Get(s.endTime)

\* a direct search with both bounds supplied has been sent
C11_Witness ==
    \E q \in DirectSearches :
        /\ Supplied(searches[q].startTime)
        /\ Supplied(searches[q].endTime)
        /\ searches[q].req.state = "sent"

\* C12: an omitted end is the current time, an omitted start is the end the
\* call uses minus 24 hours, and every supplied bound, 0 included, is used
\* as given.
C12_DefaultsExactlyWhenOmitted ==
    \A q \in DirectSearches :
        LET s     == searches[q]
            end   == IF IsSome(s.endTime) THEN Get(s.endTime) ELSE s.at
            start == IF IsSome(s.startTime) THEN Get(s.startTime)
                     ELSE end - 24 * 60 * 60 * 1000
        IN  s.end = end /\ s.start = start

\* the body is a query result: { data: { result: [ { stream, values } ] } }
ExpectedShape(body) ==
    /\ Len(body) >= 2
    /\ body[1].tok = "{data:{result:["
    /\ body[Len(body)].tok = "]}}"
    /\ \A i \in 2..(Len(body) - 1) : body[i].tok = "{stream,values}"

\* C13: a search whose response body is not a query result, be it invalid
\* JSON or valid JSON of another shape, fails with the parse error.
C13_ParseErrorOnOtherShape ==
    \A q \in DOMAIN searches :
        LET s == searches[q]
        IN  ( /\ s.req.state = "closed"
              /\ IsSome(s.req.statusCode)
              /\ ~ExpectedShape(s.req.data) )
                => /\ s.outcome.kind = "rejected"
                   /\ s.outcome.error.message = "Failed to parse Loki response"

----------------------------------------------------------------------------
(* Properties of getTranscriptStats *)

\* the length in milliseconds of the window a name stands for
WindowMillis(timeRange) ==
    CASE timeRange = "1h"  -> 3600000
      [] timeRange = "24h" -> 86400000
      [] timeRange = "7d"  -> 604800000
      [] OTHER             -> 3600000

\* both category queries of the getTranscriptStats call resolved
BothResolved ==
    /\ searches[stats.user].outcome.kind = "resolved"
    /\ searches[stats.zara].outcome.kind = "resolved"

\* C14: the windows 1h, 24h and 7d are exactly 1 hour, 24 hours and 7 days
\* ending at the current time, any other name gives the 1-hour window without
\* failing the call, and both category queries and the reported startTime and
\* endTime use that window.
C14_NamedWindows ==
    stats.pc # "idle" =>
        LET from == now - WindowMillis(stats.timeRange)
        IN  /\ \A q \in {stats.user, stats.zara} :
                  /\ searches[q].req.options.path.start = Scaled(from, 6)
                  /\ searches[q].req.options.path.end = Scaled(now, 6)
            /\ (stats.pc = "done" /\ BothResolved) =>
                  /\ IsSome(stats.outcome.value)
                  /\ Get(stats.outcome.value).startTime = [iso |-> from]
                  /\ Get(stats.outcome.value).endTime = [iso |-> now]

\* getTranscriptStats returned statistics for a window name it does not know
C14_Witness ==
    /\ stats.pc = "done"
    /\ stats.timeRange = "30d"
    /\ IsSome(stats.outcome.value)

\* C15: in every statistics object getTranscriptStats returns, totalMessages
\* is userMessages + zaraMessages.
C15_TotalIsSum ==
    (stats.pc = "done" /\ IsSome(stats.outcome.value)) =>
        LET o == Get(stats.outcome.value)
        IN  o.totalMessages = o.userMessages + o.zaraMessages

\* statistics were returned with different non-zero counts for the two categories
C15_Witness ==
    /\ stats.pc = "done"
    /\ IsSome(stats.outcome.value)
    /\ Get(stats.outcome.value).userMessages = 2
    /\ Get(stats.outcome.value).zaraMessages = 1

----------------------------------------------------------------------------
(* Properties of the backend address *)

\* the host and port a base address names
HostPort(endpoint) ==
    CASE endpoint = "http://localhost:3100"     -> [hostname |-> "localhost", port |-> 3100]
      [] endpoint = "http://loki.internal:3200" -> [hostname |-> "loki.internal", port |-> 3200]

\* C16: every push request and every query request goes to the host and port
\* of the lokiEndpoint the client was configured with.
C16_ConfiguredEndpoint ==
    /\ \A c \in DOMAIN calls :
          calls[c].req.state # "none" =>
              calls[c].req.options.target = HostPort(config.lokiEndpoint)
    /\ \A q \in DOMAIN searches :
          searches[q].req.state # "none" =>
              searches[q].req.options.target = HostPort(config.lokiEndpoint)

----------------------------------------------------------------------------
(* Properties of the errors of the push path *)

\* the push of call c was answered with a status outside the success range
StatusFailed(c) ==
    /\ calls[c].req.state = "closed"
    /\ IsSome(calls[c].req.statusCode)
    /\ Get(calls[c].req.statusCode) \notin 200..299

\* the push of call c failed in the transport, before any response
TransportFailed(c) ==
    /\ calls[c].req.state = "closed"
    /\ ~IsSome(calls[c].req.statusCode)

RECURSIVE Flatten(_)
\* the bytes of a body, chunk after chunk
Flatten(body) == IF body = <<>> THEN <<>> ELSE Head(body) \o Flatten(Tail(body))

\* the text of a body: its bytes decoded together
BodyText(body) == BufferToString(Flatten(body))

\* C17: the error of a logTranscript call whose push was answered with a
\* non-success status carries that status and the text of the response body
\* as the backend sent it, it differs from the error of a transport failure,
\* and logTranscripts records the same error for the item.
C17_FailureCarriesStatusAndBody ==
    /\ \A c \in DOMAIN calls :
          (StatusFailed(c) /\ calls[c].pc = "done") =>
              /\ calls[c].outcome.kind = "rejected"
              /\ calls[c].outcome.error.statusCode = calls[c].req.statusCode
              /\ calls[c].outcome.error.detail = BodyText(calls[c].req.body)
              /\ \A d \in DOMAIN calls :
                    (TransportFailed(d) /\ calls[d].pc = "done") =>
                        /\ calls[d].outcome.kind = "rejected"
                        /\ calls[d].outcome.error.message
                              # calls[c].outcome.error.message
    /\ batch.pc = "done" =>
          \A i \in 1..Len(batch.results) :
              (StatusFailed(i) \/ TransportFailed(i)) =>
                  /\ batch.results[i].status = "error"
                  /\ batch.results[i].error = calls[i].outcome.error

----------------------------------------------------------------------------
(* Properties of the labels prepareLogEntry builds *)

\* the labels of the log entry call c pushes
Labels(c) == calls[c].req.options.body.streams[1].stream

\* the calls that built a log entry
Prepared == {c \in DOMAIN calls : calls[c].req.state # "none"}

\* the optional fields of transcript t that become labels, each missing when
\* the object that holds it is
Optional(t) ==
    LET md  == t.metadata
        ctx == t.context
        Level(c) == IF IsSome(c) THEN Get(c).level ELSE None
    IN  [vocabulary_complexity |->
             IF IsSome(md) THEN Level(Get(md).vocabularyComplexity) ELSE None,
         grammar_complexity |->
             IF IsSome(md) THEN Level(Get(md).grammarComplexity) ELSE None,
         conversation_flow |-> IF IsSome(ctx) THEN Get(ctx).conversationFlow ELSE None,
         user_intent |-> IF IsSome(ctx) THEN Get(ctx).userIntent ELSE None]

\* the labels that come from optional fields
OptionalLabels ==
    {"vocabulary_complexity", "grammar_complexity", "conversation_flow", "user_intent"}

\* the labels of an event without metadata and context are the defaults
DefaultsWithoutMetadata(c) ==
    (~IsSome(calls[c].transcript.metadata) /\ ~IsSome(calls[c].transcript.context)) =>
        /\ \A l \in OptionalLabels : Labels(c)[l] = "unknown"
        /\ Labels(c).safety_flags = <<"none">>

\* C18 as stated: an event without metadata and context gets the labels
\* unknown and none, and each optional field that is present is the label
\* value while each that is missing gives unknown.
C18_PresentPassedThrough ==
    \A c \in Prepared :
        /\ DefaultsWithoutMetadata(c)
        /\ \A l \in OptionalLabels :
              LET field == Optional(calls[c].transcript)[l]
              IN  Labels(c)[l] = IF IsSome(field) THEN Get(field) ELSE "unknown"

\* C18: an event without metadata and context gets the labels unknown and
\* none, and each optional field that is present with a non-empty value is
\* the label value while each that is missing or empty gives unknown.
C18_NonEmptyPassedThrough ==
    \A c \in Prepared :
        /\ DefaultsWithoutMetadata(c)
        /\ \A l \in OptionalLabels :
              LET field == Optional(calls[c].transcript)[l]
              IN  Labels(c)[l] = IF IsSome(field) /\ Get(field) # "" THEN Get(field)
                                 ELSE "unknown"

\* a log entry was built for an event with a level, an empty level, a flow
\* and no intent
C18_Witness ==
    \E c \in Prepared :
        LET o == Optional(calls[c].transcript)
        IN  /\ o.vocabulary_complexity = Some("simple")
            /\ o.grammar_complexity = Some("")
            /\ o.conversation_flow = Some("start")
            /\ o.user_intent = None

\* metadata.safetyFlags of transcript t, missing when metadata is
FlagsOf(t) == IF IsSome(t.metadata) THEN Get(t.metadata).safetyFlags ELSE None

\* label is the flags in their order with a comma between neighbours
CommaJoined(label, flags) ==
    /\ Len(label) = 2 * Len(flags) - 1
    /\ \A i \in 1..Len(flags) : label[2 * i - 1] = flags[i]
    /\ \A i \in 1..(Len(flags) - 1) : label[2 * i] = ","

\* C19: the label safety_flags is none exactly when safetyFlags is missing
\* or empty, and otherwise it is the flags joined with commas in their order.
C19_NoneOnlyWhenEmpty ==
    \A c \in Prepared :
        LET flags == FlagsOf(calls[c].transcript)
            empty == ~IsSome(flags) \/ Get(flags) = <<>>
        IN  /\ Labels(c).safety_flags = <<"none">> <=> empty
            /\ ~empty => CommaJoined(Labels(c).safety_flags, Get(flags))

----------------------------------------------------------------------------
(* Properties of the counters *)

\* C22: no step of getTranscriptStats, of the searches it makes or of their
\* requests changes a counter, whether the queries succeed or fail.
C22_QueriesLeaveCounters == [][metrics' = metrics]_vars

\* getTranscriptStats returned null after one query resolved and the other
\* was rejected
C22_Witness ==
    /\ stats.pc = "done"
    /\ stats.outcome.value = None
    /\ searches[stats.user].outcome.kind = "resolved"
    /\ searches[stats.zara].outcome.kind = "rejected"

\* the calls of the batch whose push request is on the wire
BatchInFlight ==
    {c \in DOMAIN calls : calls[c].origin = "batch"
                           /\ calls[c].req.state \in {"sent", "response"}}

\* C24: logTranscripts pushes one item at a time in input order: call k is
\* for item k, it is made only after every earlier call has settled, and at
\* most one request of the batch is in flight.
C24_OneAtATime ==
    batch.pc # "idle" =>
        /\ Cardinality(BatchInFlight) <= 1
        /\ Len(calls) <= Len(batch.transcripts)
        /\ \A k \in DOMAIN calls :
              /\ calls[k].origin = "batch"
              /\ calls[k].transcript = batch.transcripts[k]
              /\ k < Len(calls) => calls[k].pc = "done"

\* a second item is on the wire after the first one's push was answered
C24_Witness ==
    /\ batch.pc = "loop"
    /\ Len(calls) = 2
    /\ calls[1].req.state = "closed"
    /\ calls[2].req.state = "sent"

\* C25: on a disabled client no step changes a counter, and logTranscripts
\* returns status success for every item.
C25_DisabledCountsNothing ==
    [][~config.enabled =>
          /\ metrics' = metrics
          /\ batch'.pc = "done" =>
                /\ Len(batch'.results) = Len(batch'.transcripts)
                /\ \A i \in 1..Len(batch'.results) :
                      batch'.results[i].status = "success"]_vars

\* a disabled, fresh client returned three successes and its counters are
\* as the constructor left them
C25_Witness ==
    /\ ~config.enabled
    /\ batch.pc = "done"
    /\ Len(batch.results) = 3
    /\ \A i \in 1..3 : batch.results[i].status = "success"
    /\ metrics.transcriptEntriesTotal = 0
    /\ metrics.lastTranscriptTimestamp = -1

\* C26: lastTranscriptTimestamp is null exactly when transcriptEntriesTotal is 0.
C26_NullIffNoEntries ==
    (metrics.lastTranscriptTimestamp = -1) <=> (metrics.transcriptEntriesTotal = 0)

\* failures alone: two errors counted, no entry, no timestamp
C26_Witness ==
    /\ metrics.transcriptErrorsTotal = 2
    /\ metrics.transcriptEntriesTotal = 0
    /\ metrics.lastTranscriptTimestamp = -1

\* C27: the counters never shrink, a step changes at most one of them and by
\* exactly 1, and lastTranscriptTimestamp is never unset again and changes
\* only in a step that counts a success.
C27_CountersGrowByOne ==
    [][LET e == metrics'.transcriptEntriesTotal - metrics.transcriptEntriesTotal
           f == metrics'.transcriptErrorsTotal - metrics.transcriptErrorsTotal
       IN  /\ <<e, f>> \in {<<0, 0>>, <<1, 0>>, <<0, 1>>}
           /\ metrics.lastTranscriptTimestamp # -1 =>
                 metrics'.lastTranscriptTimestamp # -1
           /\ e = 0 =>
                 metrics'.lastTranscriptTimestamp = metrics.lastTranscriptTimestamp]_vars

\* a failure was counted after a success that set the timestamp
C27_Witness ==
    /\ metrics.transcriptEntriesTotal = 1
    /\ metrics.transcriptErrorsTotal = 1
    /\ metrics.lastTranscriptTimestamp # -1
    /\ \E c \in DOMAIN calls :
          /\ calls[c].outcome.kind = "rejected"
          /\ calls[c].req.state = "closed"
          /\ \E d \in 1..(c - 1) : calls[d].outcome.kind = "resolved"

\* call c settles in this step
SettlesNow(c) ==
    /\ c \in DOMAIN calls'
    /\ calls'[c].outcome.kind # "pending"
    /\ c \in DOMAIN calls => calls[c].outcome.kind = "pending"

\* C28: on an enabled client the counters change only in a step in which a
\* call settles, after its request (if it made one) has closed; the step in
\* which a call resolves has counted the entry, and the step in which a call
\* is rejected has counted the error.
C28_CountedBeforeSettling ==
    [][config.enabled =>
          /\ metrics' # metrics =>
                \E c \in DOMAIN calls' :
                    /\ SettlesNow(c)
                    /\ calls'[c].req.state \in {"closed", "none"}
          /\ \A c \in DOMAIN calls' :
                SettlesNow(c) =>
                    IF calls'[c].outcome.kind = "resolved"
                    THEN metrics'.transcriptEntriesTotal
                           = metrics.transcriptEntriesTotal + 1
                    ELSE metrics'.transcriptErrorsTotal
                           = metrics.transcriptErrorsTotal + 1]_vars

\* one call has resolved and been counted while another call's request is
\* still on the wire
C28_Witness ==
    /\ config.enabled
    /\ metrics.transcriptEntriesTotal = 1
    /\ \E c, d \in DOMAIN calls :
          /\ calls[c].outcome.kind = "resolved"
          /\ calls[d].req.state = "sent"
          /\ calls[d].outcome.kind = "pending"

\* C30: getTranscriptStats starts exactly two queries, both in the step of
\* the call and so before either has completed, starts no other query, and
\* when it settles it resolves, with a statistics object if both queries
\* resolved and with null otherwise.
C30_StatsNeverRejects ==
    [][/\ (stats.pc = "idle" /\ stats'.pc # "idle") =>
             /\ Len(searches') = Len(searches) + 2
             /\ \A q \in {stats'.user, stats'.zara} :
                   /\ searches'[q].req.state = "sent"
                   /\ searches'[q].outcome.kind = "pending"
       /\ stats.pc # "idle" => Len(searches') = Len(searches)
       /\ stats'.pc = "done" =>
             /\ stats'.outcome.kind = "resolved"
             /\ IsSome(stats'.outcome.value) <=>
                   /\ searches'[stats'.user].outcome.kind = "resolved"
                   /\ searches'[stats'.zara].outcome.kind = "resolved"]_vars

\* getTranscriptStats returned null and both queries were rejected
C30_Witness ==
    /\ stats.pc = "done"
    /\ stats.outcome.kind = "resolved"
    /\ stats.outcome.value = None
    /\ searches[stats.user].outcome.kind = "rejected"
    /\ searches[stats.zara].outcome.kind = "rejected"

----------------------------------------------------------------------------
(* Properties of the two timestamps of a log entry *)

\* the value pair of the log entry call c pushes
Value(c) == calls[c].req.options.body.streams[1].values[1]

----------------------------------------------------------------------------
(* Properties of the objects that hold the counters *)

\* the counters client i reports
Reported(i) ==
    [transcript_entries_total  |-> heap[instances[i].metrics].transcriptEntriesTotal,
     transcript_errors_total   |-> heap[instances[i].metrics].transcriptErrorsTotal,
     last_transcript_timestamp |-> heap[instances[i].metrics].lastTranscriptTimestamp]

\* no call of client i settles in this step
NoPushOn(i) ==
    /\ instances'[i].resolved = instances[i].resolved
    /\ instances'[i].rejected = instances[i].rejected

\* C21: a step in which no call of a client settles, whatever calls settle
\* on the other client, leaves the counters that client reports unchanged.
C21_CountersPerInstance ==
    [][\A i \in DOMAIN instances : NoPushOn(i) => Reported(i)' = Reported(i)]_vars

\* one client has counted a success and a failure and the other client still
\* reports the counters of a new client
C21_Witness ==
    /\ instances[1].resolved = 1
    /\ instances[1].rejected = 1
    /\ Reported(1).transcript_entries_total = 1
    /\ Reported(1).transcript_errors_total = 1
    /\ Reported(2) = [transcript_entries_total |-> 0, transcript_errors_total |-> 0,
                      last_transcript_timestamp |-> -1]

\* C23: the object getMetrics returns holds the counters of its client at
\* the moment of the call; a step in which a call settles changes no object
\* returned earlier; and a step in which no call settles, such as a caller's
\* write to a returned object, changes no client's counters.
C23_PointInTimeCopy ==
    [][/\ Len(returned') > Len(returned) =>
             LET new == returned'[Len(returned')]
             IN  heap'[new.object] = Reported(new.instance)
       /\ \A k \in DOMAIN returned :
             (\E i \in DOMAIN instances : ~NoPushOn(i)) =>
                 heap'[returned[k].object] = heap[returned[k].object]
       /\ (\A i \in DOMAIN instances : NoPushOn(i)) =>
             \A i \in DOMAIN instances :
                 heap'[instances[i].metrics] = heap[instances[i].metrics]]_vars

\* a client has counted a failure since it returned an object that still
\* shows no error, and the caller has overwritten the object's entry count
C23_Witness ==
    \E k \in DOMAIN returned :
        /\ returned[k].instance = 1
        /\ heap[returned[k].object].transcript_errors_total = 0
        /\ heap[returned[k].object].transcript_entries_total = 7
        /\ Reported(1).transcript_entries_total = 0
        /\ Reported(1).transcript_errors_total = 1

====
